---------------------------- MODULE Spec2Model ----------------------------
(***************************************************************************)
(* Model of the Linux WireGuard generic-netlink client                     *)
(* (internal/wgnl/client_linux.go): the response decoder (parseDevice and  *)
(* the decoders below it), the multi-message merge (mergeDevices), the     *)
(* request encoder (configAttrs) and the Devices() enumeration.            *)
(*                                                                         *)
(* A byte slice is a sequence of numbers 0..255.  A netlink attribute is a *)
(* record [Type, Data]; the Data of a nested attribute is a payload        *)
(* [wf, attrs]: the attributes it unmarshals to, or wf = FALSE when the    *)
(* netlink package cannot unmarshal it.  Every decoder returns [err, val]; *)
(* a pointer or slice that may be nil is a sequence of length 0 or 1.      *)
(***************************************************************************)
EXTENDS Integers, Sequences, FiniteSets, TLC

VARIABLES
    pc,        \* position of the operation under way
    hostLE,    \* TRUE when the build targets a little-endian machine
    input,     \* parseDevice: parameters of the messages consumed so far
    first,     \* parseDevice: the target Device ("first" in the code)
    ret,       \* the value an operation returned: [err, val]
    saIn,      \* parseSockaddr: the payload b
    cfgName,   \* configAttrs: name
    cfg,       \* configAttrs: cfg
    ifis,      \* Devices: the interfaces c.interfaces() returned
    replies,   \* Devices: what the transport answers for each interface
    ifiIdx,    \* Devices: number of interfaces already visited by the loop
    ds         \* Devices: the result list under construction

vars == <<pc, hostLE, input, first, ret, saIn, cfgName, cfg, ifis, replies, ifiIdx, ds>>

---------------------------------------------------------------------------
(* Errors and results *)

NoErr == "nil"
ErrNotExist == "os.ErrNotExist"
Nil == <<>>

Ok(v) == [err |-> NoErr, val |-> v]
Fail(e) == [err |-> e, val |-> Nil]

\* "if err != nil { return nil, err }", then the rest with the value.
Then(r, Rest(_)) == IF r.err # NoErr THEN Fail(r.err) ELSE Rest(r.val)

---------------------------------------------------------------------------
(* Byte slices *)

Bytes(n, v) == [i \in 1..n |-> v]

RECURSIVE Reverse(_)
Reverse(s) == IF s = <<>> THEN <<>> ELSE Append(Reverse(Tail(s)), Head(s))

\* Bytes s[from..to] of a slice.
Slice(s, from, to) == SubSeq(s, from, to)

\* nlenc.Bytes: the bytes of a string and a terminating NUL.
NlencBytes(str) == Append(str, 0)

\* nlenc.String: the string of a byte slice, its trailing NULs trimmed.
RECURSIVE NlencString(_)
NlencString(b) ==
    IF b # <<>> /\ b[Len(b)] = 0 THEN NlencString(SubSeq(b, 1, Len(b) - 1)) ELSE b

\* A fixed-width integer of the raw struct, read the way the host reads
\* memory; its value is kept as its digits in base 256, most significant
\* first, so that no width is lost.
HostDigits(b, le) == IF le THEN Reverse(b) ELSE b

---------------------------------------------------------------------------
(* Primitive decoders *)

KeyLen == 32
ZeroKey == Bytes(KeyLen, 0)

\* wgtypes.NewKey: a Key from a slice of exactly KeyLen bytes.
NewKey(b) ==
    IF Len(b) # KeyLen THEN Fail("wgtypes: incorrect key size") ELSE Ok(b)

parseKey(b) == NewKey(b)

IPv4len == 4
IPv6len == 16

parseAddr(b) ==
    IF Len(b) = IPv4len \/ Len(b) = IPv6len
    THEN Ok(b)
    ELSE Fail("wireguardnl: unexpected IP address size")

SizeofSockaddrInet4 == 16
SizeofSockaddrInet6 == 28

\* sa.Port of RawSockaddrInet4/RawSockaddrInet6: the uint16 at offset 2,
\* read in host byte order by the pointer cast.
RawPort(b, le) == IF le THEN b[4] * 256 + b[3] ELSE b[3] * 256 + b[4]

parseSockaddr(b, le) ==
    CASE Len(b) = SizeofSockaddrInet4 ->
            Ok([IP |-> Slice(b, 5, 8), Port |-> RawPort(b, le)])
      [] Len(b) = SizeofSockaddrInet6 ->
            Ok([IP |-> Slice(b, 9, 24), Port |-> RawPort(b, le)])
      [] OTHER -> Fail("wireguardnl: unexpected sockaddr size")

sizeofTimespec == 16

\* time.Unix(ts.Sec, ts.Nsec), both int64 read in host byte order.
parseTimespec(b, le) ==
    IF Len(b) # sizeofTimespec
    THEN Fail("wireguardnl: unexpected timespec size")
    ELSE Ok([Sec |-> HostDigits(Slice(b, 1, 8), le),
             Nsec |-> HostDigits(Slice(b, 9, 16), le)])

ZeroTime == [Sec |-> Bytes(8, 0), Nsec |-> Bytes(8, 0)]

---------------------------------------------------------------------------
(* Attributes.  The netlink package's UnmarshalAttributes and               *)
(* NewAttributeDecoder fail on a payload that is not a well-formed          *)
(* attribute sequence; an AttributeDecoder stops at the first error and     *)
(* reports it from Err().                                                   *)

Attr(t, d) == [Type |-> t, Data |-> d]
Payload(attrs) == [wf |-> TRUE, attrs |-> attrs]
Malformed == [wf |-> FALSE, attrs |-> <<>>]

UnmarshalAttributes(b) ==
    IF ~b.wf THEN Fail("netlink: invalid attribute") ELSE Ok(b.attrs)

NewAttributeDecoder(b) == UnmarshalAttributes(b)

AF_INET == 2
AF_INET6 == 10

\* net.CIDRMask(ones, bits): nil unless 0 <= ones <= bits.
CIDRMask(ones, bits) ==
    IF ones < 0 \/ ones > bits THEN Nil ELSE <<[ones |-> ones, bits |-> bits]>>

ZeroAllowedIP == [IP |-> <<>>, Mask |-> Nil, mask |-> 0, family |-> 0]

\* The attribute loop of parseAllowedIPs over one element's attributes.
RECURSIVE allowedIPLoop(_, _, _)
allowedIPLoop(attrs, i, acc) ==
    IF i > Len(attrs) THEN Ok(acc)
    ELSE LET a == attrs[i] IN
         CASE a.Type = "AllowedipAIpaddr" ->
                 Then(parseAddr(a.Data),
                      LAMBDA ip : allowedIPLoop(attrs, i + 1, [acc EXCEPT !.IP = ip]))
           [] a.Type = "AllowedipACidrMask" ->
                 allowedIPLoop(attrs, i + 1, [acc EXCEPT !.mask = a.Data])
           [] a.Type = "AllowedipAFamily" ->
                 allowedIPLoop(attrs, i + 1, [acc EXCEPT !.family = a.Data])
           [] OTHER -> allowedIPLoop(attrs, i + 1, acc)

\* The mask by address family, after the loop.
maskByFamily(acc) ==
    [IP |-> acc.IP,
     Mask |-> CASE acc.family = AF_INET -> CIDRMask(acc.mask, 32)
                [] acc.family = AF_INET6 -> CIDRMask(acc.mask, 128)
                [] OTHER -> Nil]

\* One element of the allowed-IP array: the loop, then the mask by family.
parseAllowedIP(data) ==
    Then(NewAttributeDecoder(data),
         LAMBDA attrs : Then(allowedIPLoop(attrs, 1, ZeroAllowedIP),
                             LAMBDA acc : Ok(maskByFamily(acc))))

RECURSIVE allowedIPsFrom(_, _, _)
allowedIPsFrom(attrs, i, ipns) ==
    IF i > Len(attrs) THEN Ok(ipns)
    ELSE Then(parseAllowedIP(attrs[i].Data),
              LAMBDA ipn : allowedIPsFrom(attrs, i + 1, Append(ipns, ipn)))

parseAllowedIPs(b) ==
    Then(UnmarshalAttributes(b), LAMBDA attrs : allowedIPsFrom(attrs, 1, <<>>))

---------------------------------------------------------------------------
(* Peers *)

ZeroPeer ==
    [PublicKey |-> ZeroKey, PresharedKey |-> ZeroKey, Endpoint |-> Nil,
     PersistentKeepaliveInterval |-> 0, LastHandshakeTime |-> ZeroTime,
     ReceiveBytes |-> 0, TransmitBytes |-> 0, AllowedIPs |-> <<>>]

\* The attribute loop of parsePeers over one peer's attributes.
RECURSIVE peerLoop(_, _, _, _)
peerLoop(attrs, i, p, le) ==
    IF i > Len(attrs) THEN Ok(p)
    ELSE LET a == attrs[i] IN
         CASE a.Type = "PeerAPublicKey" ->
                 Then(parseKey(a.Data),
                      LAMBDA k : peerLoop(attrs, i + 1, [p EXCEPT !.PublicKey = k], le))
           [] a.Type = "PeerAPresharedKey" ->
                 Then(parseKey(a.Data),
                      LAMBDA k : peerLoop(attrs, i + 1, [p EXCEPT !.PresharedKey = k], le))
           [] a.Type = "PeerAEndpoint" ->
                 Then(parseSockaddr(a.Data, le),
                      LAMBDA ep : peerLoop(attrs, i + 1, [p EXCEPT !.Endpoint = <<ep>>], le))
           [] a.Type = "PeerAPersistentKeepaliveInterval" ->
                 peerLoop(attrs, i + 1,
                          [p EXCEPT !.PersistentKeepaliveInterval = a.Data], le)
           [] a.Type = "PeerALastHandshakeTime" ->
                 Then(parseTimespec(a.Data, le),
                      LAMBDA t : peerLoop(attrs, i + 1,
                                          [p EXCEPT !.LastHandshakeTime = t], le))
           [] a.Type = "PeerARxBytes" ->
                 peerLoop(attrs, i + 1, [p EXCEPT !.ReceiveBytes = a.Data], le)
           [] a.Type = "PeerATxBytes" ->
                 peerLoop(attrs, i + 1, [p EXCEPT !.TransmitBytes = a.Data], le)
           [] a.Type = "PeerAAllowedips" ->
                 Then(parseAllowedIPs(a.Data),
                      LAMBDA ipns : peerLoop(attrs, i + 1, [p EXCEPT !.AllowedIPs = ipns], le))
           [] OTHER -> peerLoop(attrs, i + 1, p, le)

\* One element of the peer array.
parsePeer(data, le) ==
    Then(NewAttributeDecoder(data), LAMBDA attrs : peerLoop(attrs, 1, ZeroPeer, le))

RECURSIVE peersFrom(_, _, _, _)
peersFrom(attrs, i, ps, le) ==
    IF i > Len(attrs) THEN Ok(ps)
    ELSE Then(parsePeer(attrs[i].Data, le),
              LAMBDA p : peersFrom(attrs, i + 1, Append(ps, p), le))

parsePeers(b, le) ==
    Then(UnmarshalAttributes(b), LAMBDA attrs : peersFrom(attrs, 1, <<>>, le))

---------------------------------------------------------------------------
(* Devices *)

ZeroDevice ==
    [Name |-> <<>>, PrivateKey |-> ZeroKey, PublicKey |-> ZeroKey,
     ListenPort |-> 0, FirewallMark |-> 0, Peers |-> <<>>]

\* The attribute loop of parseDeviceLoop.
RECURSIVE deviceLoop(_, _, _, _)
deviceLoop(attrs, i, d, le) ==
    IF i > Len(attrs) THEN Ok(d)
    ELSE LET a == attrs[i] IN
         CASE a.Type = "DeviceAIfindex" -> deviceLoop(attrs, i + 1, d, le)
           [] a.Type = "DeviceAIfname" ->
                 deviceLoop(attrs, i + 1, [d EXCEPT !.Name = NlencString(a.Data)], le)
           [] a.Type = "DeviceAPrivateKey" ->
                 Then(parseKey(a.Data),
                      LAMBDA k : deviceLoop(attrs, i + 1, [d EXCEPT !.PrivateKey = k], le))
           [] a.Type = "DeviceAPublicKey" ->
                 Then(parseKey(a.Data),
                      LAMBDA k : deviceLoop(attrs, i + 1, [d EXCEPT !.PublicKey = k], le))
           [] a.Type = "DeviceAListenPort" ->
                 deviceLoop(attrs, i + 1, [d EXCEPT !.ListenPort = a.Data], le)
           [] a.Type = "DeviceAFwmark" ->
                 deviceLoop(attrs, i + 1, [d EXCEPT !.FirewallMark = a.Data], le)
           [] a.Type = "DeviceAPeers" ->
                 Then(parsePeers(a.Data, le),
                      LAMBDA ps : deviceLoop(attrs, i + 1, [d EXCEPT !.Peers = ps], le))
           [] OTHER -> deviceLoop(attrs, i + 1, d, le)

\* parseDeviceLoop(m): a Device from the attributes of one message.
parseDeviceLoop(m, le) ==
    Then(NewAttributeDecoder(m.Data), LAMBDA attrs : deviceLoop(attrs, 1, ZeroDevice, le))

---------------------------------------------------------------------------
(* mergeDevices *)

PeerKeys(peers) == {peers[j].PublicKey : j \in 1..Len(peers)}

\* The inner loop (k over d.Peers) for target peer tp; st = [known, peers, ipns].
RECURSIVE mergeInner(_, _, _, _)
mergeInner(tp, dPeers, k, st) ==
    IF k > Len(dPeers) THEN st
    ELSE IF tp.PublicKey = dPeers[k].PublicKey
         THEN mergeInner(tp, dPeers, k + 1,
                         [st EXCEPT !.ipns = @ \o dPeers[k].AllowedIPs])
    ELSE IF dPeers[k].PublicKey \in st.known
         THEN mergeInner(tp, dPeers, k + 1, st)
    ELSE mergeInner(tp, dPeers, k + 1,
                    [st EXCEPT !.peers = Append(@, dPeers[k]),
                               !.known = @ \cup {dPeers[k].PublicKey}])

\* The outer loop (j over target.Peers), then the append of the new peers.
RECURSIVE mergeOuter(_, _, _, _, _)
mergeOuter(target, d, j, known, peers) ==
    IF j > Len(target.Peers)
    THEN [target EXCEPT !.Peers = @ \o peers]
    ELSE LET st == mergeInner(target.Peers[j], d.Peers, 1,
                              [known |-> known, peers |-> peers, ipns |-> <<>>])
         IN mergeOuter([target EXCEPT !.Peers[j].AllowedIPs = @ \o st.ipns],
                       d, j + 1, st.known, st.peers)

\* mergeDevices with the known set left empty: a target peer other than the
\* current one is taken for a new peer.
mergeDevices_knownEmpty(target, d) == mergeOuter(target, d, 1, {}, <<>>)

\* mergeDevices also taking the listen port and firewall mark of d.
mergeDevices_takesFields(target, d) ==
    [mergeOuter(target, d, 1, PeerKeys(target.Peers), <<>>)
        EXCEPT !.ListenPort = d.ListenPort, !.FirewallMark = d.FirewallMark]

mergeDevices(target, d) == mergeOuter(target, d, 1, PeerKeys(target.Peers), <<>>)

---------------------------------------------------------------------------
(* parseDevice *)

\* The iteration skipping a continuation that fails to decode.
parseDeviceIter_skipsBad(target, i, m, le) ==
    LET r == parseDeviceLoop(m, le) IN
    IF r.err # NoErr
    THEN [err |-> IF i = 0 THEN r.err ELSE NoErr, first |-> target]
    ELSE IF i = 0 THEN [err |-> NoErr, first |-> r.val]
    ELSE [err |-> NoErr, first |-> mergeDevices(target, r.val)]

\* One iteration of parseDevice's loop, on message m at index i (from 0)
\* with the target built so far: the error, if any, and the new target.
parseDeviceIter(target, i, m, le) ==
    LET r == parseDeviceLoop(m, le) IN
    IF r.err # NoErr THEN [err |-> r.err, first |-> target]
    ELSE IF i = 0 THEN [err |-> NoErr, first |-> r.val]
    ELSE [err |-> NoErr, first |-> mergeDevices(target, r.val)]

RECURSIVE parseDeviceFrom(_, _, _, _)
parseDeviceFrom(msgs, i, target, le) ==
    IF i >= Len(msgs) THEN [err |-> NoErr, val |-> <<target>>]
    ELSE LET r == parseDeviceIter(target, i, msgs[i + 1], le) IN
         IF r.err # NoErr THEN [err |-> r.err, val |-> Nil]
         ELSE parseDeviceFrom(msgs, i + 1, r.first, le)

\* parseDevice(msgs): the error, and the *Device returned (nil on error).
parseDevice(msgs, le) == parseDeviceFrom(msgs, 0, ZeroDevice, le)

---------------------------------------------------------------------------
(* The response messages the transport may hand to parseDevice.  A message  *)
(* is drawn by its parameters [keys, ips, bad]: the public keys of its      *)
(* peers in order, a shift that sets how many allowed IPs each of its peers *)
(* carries (none, one or two, by message and position), and which payload,  *)
(* if any, has a wrong size or cannot be unmarshalled.                      *)

MaxMsgs == 3
MaxPeers == 2
MaxTotalPeers == 4

\* Interface names, as the bytes of "wg0" and "wg1".
Wg0 == <<119, 103, 48>>
Wg1 == <<119, 103, 49>>

KeyIds == {1, 2, 3}
Key(k) == Bytes(KeyLen, k)

KeyLists == UNION {[1..n -> KeyIds] : n \in 0..MaxPeers}

BadKinds ==
    {"message", "device-key", "peers", "peer", "peer-key", "peer-endpoint",
     "peer-timespec", "allowedips", "allowedip", "allowedip-addr"}

IPShifts == {0, 1, 2}

MsgParams ==
    [keys : KeyLists, ips : IPShifts, bad : {"none"}]
    \cup [keys : {<<1, 2>>}, ips : IPShifts, bad : BadKinds]

\* The number of allowed IPs of peer number p of message number m; the
\* peers of a message with a fault carry as many as their position.
IPCount(m, p, mp) == IF mp.bad # "none" THEN p ELSE (m + p + mp.ips) % 3

\* A sockaddr_in payload: family, port in network byte order, address, zero.
SockaddrInet4(hi, lo, addr) == <<2, 0, hi, lo>> \o addr \o Bytes(8, 0)

\* A timespec payload holding sec and nsec below 256, as the host lays it out.
Timespec(sec, nsec, le) ==
    IF le THEN <<sec>> \o Bytes(7, 0) \o <<nsec>> \o Bytes(7, 0)
    ELSE Bytes(7, 0) \o <<sec>> \o Bytes(7, 0) \o <<nsec>>

\* The q-th allowed IP of a peer: an IPv4 /32 for odd q, an IPv6 /128 for even q.
WireAllowedIP(q, bad) ==
    IF bad = "allowedip" THEN Attr(0, Malformed)
    ELSE Attr(0, Payload(
        IF q % 2 = 1
        THEN <<Attr("AllowedipAFamily", AF_INET),
               Attr("AllowedipAIpaddr",
                    IF bad = "allowedip-addr" THEN <<10, 0, 0, q, 0>> ELSE <<10, 0, 0, q>>),
               Attr("AllowedipACidrMask", 32)>>
        ELSE <<Attr("AllowedipAFamily", AF_INET6),
               Attr("AllowedipAIpaddr",
                    IF bad = "allowedip-addr" THEN Bytes(15, q) ELSE Bytes(16, q)),
               Attr("AllowedipAUnknown", 7),
               Attr("AllowedipACidrMask", 128)>>))

\* Peer number p of message number m, with n allowed IPs.  Attributes the
\* decoder reads as numbers (ad.Uint16, ad.Uint64, ...) carry the number.
WirePeer(m, p, k, n, bad, le) ==
    IF bad = "peer" THEN Attr(0, Malformed)
    ELSE Attr(0, Payload(
        <<Attr("PeerAPublicKey", IF bad = "peer-key" THEN Bytes(KeyLen + 1, k) ELSE Key(k)),
          Attr("PeerAPresharedKey", Key(10 * m + p)),
          Attr("PeerAEndpoint",
               IF bad = "peer-endpoint" THEN Bytes(SizeofSockaddrInet4 - 1, 0)
               ELSE SockaddrInet4(m, p, <<192, 168, m, p>>)),
          Attr("PeerAPersistentKeepaliveInterval", 20 + m),
          Attr("PeerAUnknown", 7),
          Attr("PeerALastHandshakeTime",
               IF bad = "peer-timespec" THEN Bytes(sizeofTimespec - 4, 0)
               ELSE Timespec(m, p, le)),
          Attr("PeerARxBytes", 100 * m + p),
          Attr("PeerATxBytes", 200 * m + p),
          Attr("PeerAAllowedips",
               IF bad = "allowedips" THEN Malformed
               ELSE Payload([q \in 1..n |->
                                WireAllowedIP(q, IF q = n THEN bad ELSE "none")]))>>))

\* Message number m (from 1) with parameters mp; a fault sits in the last peer.
WireMsg(m, mp, le) ==
    [Data |->
        IF mp.bad = "message" THEN Malformed
        ELSE Payload(
            <<Attr("DeviceAIfindex", m),
              Attr("DeviceAIfname", NlencBytes(IF m = 1 THEN Wg0 ELSE Wg1)),
              Attr("DeviceAPrivateKey",
                   IF mp.bad = "device-key" THEN Bytes(KeyLen - 1, m) ELSE Key(40 + m)),
              Attr("DeviceAPublicKey", Key(50 + m)),
              Attr("DeviceAListenPort", 51820 + m),
              Attr("DeviceAUnknown", 7),
              Attr("DeviceAFwmark", m),
              Attr("DeviceAPeers",
                   IF mp.bad = "peers" THEN Malformed
                   ELSE Payload([p \in 1..Len(mp.keys) |->
                           WirePeer(m, p, mp.keys[p], IPCount(m, p, mp),
                                    IF p = Len(mp.keys) THEN mp.bad ELSE "none", le)]))>>)]

\* msgs[i] of the code (i from 0) is Msg(i + 1).
Msg(m) == WireMsg(m, input[m], hostLE)

RECURSIVE TotalPeers(_)
TotalPeers(in) == IF in = <<>> THEN 0 ELSE Len(Head(in).keys) + TotalPeers(Tail(in))

---------------------------------------------------------------------------
(* Values of the variables an operation does not use *)

NoRet == [err |-> NoErr, val |-> <<>>]
ZeroConfig == [PrivateKey |-> Nil, ListenPort |-> Nil, FirewallMark |-> Nil, Peers |-> <<>>]

IdleParse == input = <<>> /\ first = ZeroDevice
IdleSockaddr == saIn = <<>>
IdleConfig == cfgName = <<>> /\ cfg = ZeroConfig
IdleDevices == ifis = <<>> /\ replies = <<>> /\ ifiIdx = 0 /\ ds = <<>>

---------------------------------------------------------------------------
(* parseDevice(msgs): the loop consumes the messages one by one; the       *)
(* messages not yet consumed are drawn when the loop reaches them.         *)

InitParse ==
    /\ pc = "loop"
    /\ hostLE \in BOOLEAN
    /\ ret = NoRet
    /\ IdleParse /\ IdleSockaddr /\ IdleConfig /\ IdleDevices

\* The loop body on the next message of msgs.
ParseDeviceNext ==
    /\ pc = "loop"
    /\ Len(input) < MaxMsgs
    /\ \E mp \in MsgParams :
          /\ input # <<>> => mp.ips = input[1].ips
          /\ TotalPeers(input) + Len(mp.keys) <= MaxTotalPeers
          /\ LET i == Len(input)
                 r == parseDeviceIter(first, i, WireMsg(i + 1, mp, hostLE), hostLE)
             IN /\ input' = Append(input, mp)
                /\ IF r.err # NoErr
                   THEN /\ pc' = "done"
                        /\ ret' = [err |-> r.err, val |-> Nil]
                        /\ first' = first
                   ELSE /\ first' = r.first
                        /\ UNCHANGED <<pc, ret>>
    /\ UNCHANGED <<hostLE, saIn, cfgName, cfg, ifis, replies, ifiIdx, ds>>

\* msgs is exhausted: return &first, nil.
ParseDeviceReturn ==
    /\ pc = "loop"
    /\ pc' = "done"
    /\ ret' = [err |-> NoErr, val |-> <<first>>]
    /\ UNCHANGED <<hostLE, input, first, saIn, cfgName, cfg, ifis, replies, ifiIdx, ds>>

NextParse == ParseDeviceNext \/ ParseDeviceReturn

SpecParse == InitParse /\ [][NextParse]_vars

---------------------------------------------------------------------------
(* Properties of parseDevice *)

\* The Device message number m decodes to, taken alone.
Decoded(m) == parseDeviceLoop(Msg(m), hostLE).val

Returned == pc = "done" /\ ret.err = NoErr
Result == ret.val[1]

KeySeq(peers) == [j \in 1..Len(peers) |-> peers[j].PublicKey]

Distinct(seq) == \A a, b \in 1..Len(seq) : seq[a] = seq[b] => a = b

\* The allowed IPs of the peers with public key K, in list order.
RECURSIVE IPsOfKey(_, _)
IPsOfKey(peers, K) ==
    IF peers = <<>> THEN <<>>
    ELSE (IF Head(peers).PublicKey = K THEN Head(peers).AllowedIPs ELSE <<>>)
         \o IPsOfKey(Tail(peers), K)

\* The same over messages 1..n, in arrival order.
RECURSIVE IPsOfKeyUpTo(_, _)
IPsOfKeyUpTo(n, K) ==
    IF n = 0 THEN <<>> ELSE IPsOfKeyUpTo(n - 1, K) \o IPsOfKey(Decoded(n).Peers, K)

Occurrences(peers, K) == Cardinality({j \in 1..Len(peers) : peers[j].PublicKey = K})

\* The keys of seq that are not in known, each once, in order of first occurrence.
RECURSIVE NewKeys(_, _)
NewKeys(seq, known) ==
    IF seq = <<>> THEN <<>>
    ELSE IF Head(seq) \in known THEN NewKeys(Tail(seq), known)
    ELSE <<Head(seq)>> \o NewKeys(Tail(seq), known \cup {Head(seq)})

\* A peer without its allowed IPs.
Fixed(p) == [p EXCEPT !.AllowedIPs = <<>>]

\* The error each fault makes the decoders report.
BadErr(bad) ==
    CASE bad \in {"message", "peers", "peer", "allowedips", "allowedip"} ->
            "netlink: invalid attribute"
      [] bad \in {"device-key", "peer-key"} -> "wgtypes: incorrect key size"
      [] bad = "peer-endpoint" -> "wireguardnl: unexpected sockaddr size"
      [] bad = "peer-timespec" -> "wireguardnl: unexpected timespec size"
      [] bad = "allowedip-addr" -> "wireguardnl: unexpected IP address size"

\* No message repeats a public key among its own peers.
EachMessageDistinct ==
    \A m \in 1..Len(input) : Distinct(KeySeq(Decoded(m).Peers))

\* C1: in the Device parseDevice returns, every public key K that occurs in
\* a peer of any message belongs to a peer, and the peer with key K has as
\* its allowed IPs the concatenation of the allowed IPs of all occurrences
\* of K, in message order and then within-message order.  Stated for the
\* sequences in which no message repeats a key among its own peers, where
\* "the peer with key K" of a message is one peer.
C1_AllowedIPsConcatenated ==
    (Returned /\ EachMessageDistinct) =>
        \A m \in 1..Len(input) : \A p \in 1..Len(Decoded(m).Peers) :
            LET K == Decoded(m).Peers[p].PublicKey IN
            /\ \E j \in 1..Len(Result.Peers) : Result.Peers[j].PublicKey = K
            /\ \A j \in 1..Len(Result.Peers) :
                  Result.Peers[j].PublicKey = K =>
                      Result.Peers[j].AllowedIPs = IPsOfKeyUpTo(Len(input), K)

\* C2 as stated: no two peers of the returned Device share a public key.
C2_UniqueKeysAlways == Returned => Distinct(KeySeq(Result.Peers))

\* C2: when no two peers of the first message share a public key, no two
\* peers of the Device parseDevice returns share a public key.
C2_UniqueKeys ==
    (Returned /\ Len(input) >= 1 /\ Distinct(KeySeq(Decoded(1).Peers)))
        => Distinct(KeySeq(Result.Peers))

C2_Witness ==
    /\ Returned /\ Len(input) = 3
    /\ Distinct(KeySeq(Decoded(1).Peers)) /\ Len(Decoded(1).Peers) = 1
    /\ \E K \in PeerKeys(Decoded(2).Peers) :
          /\ K \notin PeerKeys(Decoded(1).Peers)
          /\ Occurrences(Decoded(2).Peers, K) = 2
          /\ Occurrences(Decoded(3).Peers, K) = 1

\* C3: a step that merges a continuation d into the target leaves the
\* target's peers as the original peers in their order followed by one new
\* peer per public key of d that is not in the target, in order of first
\* occurrence in d.
C3_MergeAppendsNewPeers ==
    [][(pc = "loop" /\ pc' = "loop" /\ Len(input) >= 1 /\ Len(input') = Len(input) + 1)
        => LET d == parseDeviceLoop(WireMsg(Len(input'), input'[Len(input')], hostLE),
                                    hostLE).val
           IN KeySeq(first'.Peers) =
                  KeySeq(first.Peers)
                  \o NewKeys(KeySeq(d.Peers), PeerKeys(first.Peers))]_vars

\* C5: when a message handed to parseDevice has a payload of a wrong size
\* or one that cannot be unmarshalled, at any level, parseDevice returns
\* that error and no Device.
C5_ErrorNoDevice ==
    pc = "done" =>
        \A m \in 1..Len(input) :
            input[m].bad # "none" => ret.err = BadErr(input[m].bad) /\ ret.val = Nil

C5_Witness ==
    /\ pc = "done" /\ Len(input) = 3
    /\ Len(input[1].keys) >= 1 /\ Len(input[2].keys) >= 1
    /\ input[3].bad = "allowedip-addr"
    /\ ret.err # NoErr

\* C8: the returned Device has the name, keys, listen port and firewall
\* mark of the first message, every peer of the first message is still at
\* its place with everything but its allowed IPs as the first message gave
\* it, and with no continuation the Device is the first message's.
C8_FirstMessageAuthoritative ==
    (Returned /\ Len(input) >= 1) =>
        LET d1 == Decoded(1) IN
        /\ [Result EXCEPT !.Peers = <<>>] = [d1 EXCEPT !.Peers = <<>>]
        /\ Len(Result.Peers) >= Len(d1.Peers)
        /\ \A j \in 1..Len(d1.Peers) : Fixed(Result.Peers[j]) = Fixed(d1.Peers[j])
        /\ Len(input) = 1 => Result = d1

C8_Witness ==
    /\ Returned /\ Len(input) = 3
    /\ \E j \in 1..Len(Decoded(1).Peers) : \E m \in 2..3 :
          \E k \in 1..Len(Decoded(m).Peers) :
             /\ Decoded(m).Peers[k].PublicKey = Decoded(1).Peers[j].PublicKey
             /\ Fixed(Decoded(m).Peers[k]) # Fixed(Decoded(1).Peers[j])
             /\ Decoded(m).Peers[k].AllowedIPs # <<>>
             /\ Decoded(m).Name # Decoded(1).Name

\* C9: a public key K that is in no peer of the first message, occurs once
\* in continuation i and once in a later continuation j and nowhere else,
\* belongs to exactly one peer of the returned Device, whose allowed IPs
\* are those of the occurrence in i followed by those of the one in j.
C9_ContinuationOfNewPeer ==
    Returned =>
        \A i, j \in 2..Len(input) : \A K \in PeerKeys(Decoded(i).Peers) :
            (/\ i < j
             /\ Occurrences(Decoded(i).Peers, K) = 1
             /\ Occurrences(Decoded(j).Peers, K) = 1
             /\ \A m \in 1..Len(input) :
                   m \notin {i, j} => Occurrences(Decoded(m).Peers, K) = 0)
            => /\ Occurrences(Result.Peers, K) = 1
               /\ IPsOfKey(Result.Peers, K) =
                     IPsOfKey(Decoded(i).Peers, K) \o IPsOfKey(Decoded(j).Peers, K)

---------------------------------------------------------------------------
(* parseSockaddr(endpoint)(b) on a peer's endpoint payload *)

\* A sockaddr_in6 payload: family, port in network byte order, flow info,
\* address, scope id.
SockaddrInet6(hi, lo, addr) == <<10, 0, hi, lo>> \o Bytes(4, 0) \o addr \o Bytes(4, 0)

\* 51820 is 202 * 256 + 108.
PortBytes == {0, 108, 202, 255}
Addrs4 == {<<192, 168, 1, 1>>, <<10, 0, 0, 1>>}
Addrs6 == {Bytes(15, 0) \o <<1>>, <<254, 128>> \o Bytes(14, 7)}

\* Well-sized payloads, and each of them a byte short, a byte long, or empty.
SockaddrPayloads ==
    LET good == {SockaddrInet4(hi, lo, a) : hi \in PortBytes, lo \in PortBytes, a \in Addrs4}
                \cup {SockaddrInet6(hi, lo, a) : hi \in PortBytes, lo \in PortBytes, a \in Addrs6}
    IN good \cup {SubSeq(b, 1, Len(b) - 1) : b \in good}
            \cup {Append(b, 0) : b \in good} \cup {<<>>}

InitSockaddr ==
    /\ pc = "call"
    /\ hostLE \in BOOLEAN
    /\ saIn \in SockaddrPayloads
    /\ ret = NoRet
    /\ IdleParse /\ IdleConfig /\ IdleDevices

\* The call: the error returned and the endpoint written (none on error).
ParseSockaddrCall ==
    /\ pc = "call"
    /\ pc' = "done"
    /\ LET r == parseSockaddr(saIn, hostLE) IN
       ret' = [err |-> r.err, val |-> IF r.err = NoErr THEN <<r.val>> ELSE Nil]
    /\ UNCHANGED <<hostLE, input, first, saIn, cfgName, cfg, ifis, replies, ifiIdx, ds>>

NextSockaddr == ParseSockaddrCall

SpecSockaddr == InitSockaddr /\ [][NextSockaddr]_vars

\* C4: a payload of the v4 socket-address size decodes to the address in
\* its bytes and the port its port field carries in network byte order; a
\* payload that has neither the v4 nor the v6 size fails.
C4_SockaddrDecodes ==
    pc = "done" =>
        /\ Len(saIn) = SizeofSockaddrInet4 =>
              /\ ret.err = NoErr
              /\ ret.val[1].IP = SubSeq(saIn, 5, 8)
              /\ ret.val[1].Port = saIn[3] * 256 + saIn[4]
        /\ Len(saIn) \notin {SizeofSockaddrInet4, SizeofSockaddrInet6} =>
              ret.err # NoErr /\ ret.val = Nil

---------------------------------------------------------------------------
(* configAttrs and ConfigureDevice *)

\* What c.c.Execute may report for a request.
ENODEV == "ENODEV"
ENOTSUP == "ENOTSUP"
ENOENT == "ENOENT"
EPERM == "EPERM"

\* execute converting "no such device" alone.
execute_onlyNoDev(reply) ==
    IF reply.err # NoErr
    THEN IF reply.err = ENODEV THEN [err |-> ErrNotExist, msgs |-> <<>>]
         ELSE [err |-> reply.err, msgs |-> <<>>]
    ELSE [err |-> NoErr, msgs |-> reply.msgs]

\* execute: the transport's answer, "no such device" and "not a wireguard
\* device" turned into os.ErrNotExist.
execute(reply) ==
    IF reply.err # NoErr
    THEN IF reply.err \in {ENODEV, ENOTSUP} THEN [err |-> ErrNotExist, msgs |-> <<>>]
         ELSE [err |-> reply.err, msgs |-> <<>>]
    ELSE [err |-> NoErr, msgs |-> reply.msgs]

\* configAttrs taking a zero private key for an absent one.
configAttrs_zeroIsAbsent(name, c) ==
    LET attrs == <<Attr("DeviceAIfname", NlencBytes(name))>> IN
    Ok(IF c.PrivateKey # Nil /\ c.PrivateKey # <<ZeroKey>>
       THEN Append(attrs, Attr("DeviceAPrivateKey", c.PrivateKey[1]))
       ELSE attrs)

configAttrs(name, c) ==
    LET attrs == <<Attr("DeviceAIfname", NlencBytes(name))>> IN
    Ok(IF c.PrivateKey # Nil
       THEN Append(attrs, Attr("DeviceAPrivateKey", c.PrivateKey[1]))
       ELSE attrs)

\* ConfigureDevice against a transport that answers reply: the error
\* returned, and the attributes handed to the transport.
ConfigureDevice(name, c, reply) ==
    LET a == configAttrs(name, c) IN
    IF a.err # NoErr THEN [err |-> a.err, val |-> Nil]
    ELSE [err |-> execute(reply).err, val |-> a.val]

Names == {Wg0, Wg1}

\* The sparse Config: each field absent (nil) or present, zero included.
Configs ==
    [PrivateKey : {Nil, <<ZeroKey>>, <<Key(7)>>},
     ListenPort : {Nil, <<0>>, <<51820>>},
     FirewallMark : {Nil, <<0>>, <<1>>},
     Peers : {<<>>, <<[PublicKey |-> Key(1)]>>}]

SetReplies == {[err |-> e, msgs |-> <<>>] : e \in {NoErr, ENODEV, ENOTSUP, EPERM}}

InitConfig ==
    /\ pc = "call"
    /\ hostLE \in BOOLEAN
    /\ cfgName \in Names
    /\ cfg \in Configs
    /\ ret = NoRet
    /\ IdleParse /\ IdleSockaddr /\ IdleDevices

ConfigAttrsCall ==
    /\ pc = "call"
    /\ pc' = "configAttrs"
    /\ ret' = configAttrs(cfgName, cfg)
    /\ UNCHANGED <<hostLE, input, first, saIn, cfgName, cfg, ifis, replies, ifiIdx, ds>>

ConfigureDeviceCall ==
    /\ pc = "call"
    /\ pc' = "ConfigureDevice"
    /\ \E reply \in SetReplies : ret' = ConfigureDevice(cfgName, cfg, reply)
    /\ UNCHANGED <<hostLE, input, first, saIn, cfgName, cfg, ifis, replies, ifiIdx, ds>>

NextConfig == ConfigAttrsCall \/ ConfigureDeviceCall

SpecConfig == InitConfig /\ [][NextConfig]_vars

\* The Config specifies a field the encoder has no attribute for.
Uncovered(c) == c.ListenPort # Nil \/ c.FirewallMark # Nil \/ c.Peers # <<>>

\* C6: when the Config specifies a listen port, a firewall mark or peers,
\* configAttrs and ConfigureDevice fail with an error.
C6_UncoveredFieldFails ==
    (pc \in {"configAttrs", "ConfigureDevice"} /\ Uncovered(cfg)) => ret.err # NoErr

\* C7: configAttrs returns, without error, the interface-name attribute
\* carrying the name, followed by the private-key attribute carrying the
\* key bytes exactly when the Config's private key is present, a zero key
\* included; decoded as a Device message the list gives back the name and
\* the key.
C7_ConfigAttrs ==
    pc = "configAttrs" =>
        /\ ret.err = NoErr
        /\ ret.val[1].Type = "DeviceAIfname"
        /\ NlencString(ret.val[1].Data) = cfgName
        /\ cfg.PrivateKey = Nil => Len(ret.val) = 1
        /\ cfg.PrivateKey # Nil =>
              /\ Len(ret.val) = 2
              /\ ret.val[2] = Attr("DeviceAPrivateKey", cfg.PrivateKey[1])
              /\ Len(ret.val[2].Data) = KeyLen
        /\ LET d == parseDeviceLoop([Data |-> Payload(ret.val)], hostLE) IN
           /\ d.err = NoErr
           /\ d.val.Name = cfgName
           /\ d.val.PrivateKey = (IF cfg.PrivateKey = Nil THEN ZeroKey ELSE cfg.PrivateKey[1])

C7_Witness ==
    /\ pc = "configAttrs"
    /\ cfg.PrivateKey = <<ZeroKey>>
    /\ Len(ret.val) = 2

---------------------------------------------------------------------------
(* getDevice and Devices *)

\* os.IsNotExist.
IsNotExist(err) == err \in {ErrNotExist, ENOENT}

\* The messages a reply carries, from their parameters.
ReplyMsgs(reply, le) == [m \in 1..Len(reply.msgs) |-> WireMsg(m, reply.msgs[m], le)]

\* getDevice(index, name) against a transport that answers reply.
getDevice(index, name, reply, le) ==
    IF index = 0 /\ name = <<>> THEN [err |-> ErrNotExist, val |-> Nil]
    ELSE LET attr == IF index # 0 THEN Attr("DeviceAIfindex", index)
                     ELSE Attr("DeviceAIfname", NlencBytes(name))
             x == execute(reply)
         IN IF x.err # NoErr THEN [err |-> x.err, val |-> Nil]
            ELSE parseDevice(ReplyMsgs(x, le), le)

\* One iteration of the loop of Devices on interface ifi: whether the loop
\* returns, the error it returns, and the list ds after it.
devicesIter(list, ifi, reply, le) ==
    LET r == getDevice(ifi.Index, ifi.Name, reply, le) IN
    IF r.err # NoErr
    THEN IF IsNotExist(r.err) THEN [stop |-> FALSE, err |-> NoErr, ds |-> list]
         ELSE [stop |-> TRUE, err |-> r.err, ds |-> list]
    ELSE [stop |-> FALSE, err |-> NoErr, ds |-> Append(list, r.val[1])]

MaxIfis == 3

Interfaces ==
    {[Index |-> 1, Name |-> Wg0], [Index |-> 0, Name |-> Wg1],
     [Index |-> 0, Name |-> <<>>]}

GetReplies ==
    {[err |-> e, msgs |-> <<>>] : e \in {ENODEV, ENOTSUP, ENOENT, EPERM}}
    \cup {[err |-> NoErr, msgs |-> ms] :
            ms \in {<<[keys |-> <<1>>, ips |-> 0, bad |-> "none"]>>,
                    <<[keys |-> <<1, 2>>, ips |-> 1, bad |-> "none"],
                      [keys |-> <<2, 3>>, ips |-> 1, bad |-> "none"]>>,
                    <<[keys |-> <<1>>, ips |-> 2, bad |-> "none"],
                      [keys |-> <<1, 2>>, ips |-> 2, bad |-> "peer-key"]>>}}

\* No request is sent for an interface with neither index nor name.
NoReply == [err |-> NoErr, msgs |-> <<>>]

InitDevices ==
    /\ pc = "interfaces"
    /\ hostLE \in BOOLEAN
    /\ ret = NoRet
    /\ IdleParse /\ IdleSockaddr /\ IdleConfig /\ IdleDevices

\* c.interfaces() fails: Devices returns its error.
DevicesInterfacesFail ==
    /\ pc = "interfaces"
    /\ pc' = "done"
    /\ ret' = [err |-> "interfaces", val |-> Nil]
    /\ UNCHANGED <<hostLE, input, first, saIn, cfgName, cfg, ifis, replies, ifiIdx, ds>>

\* c.interfaces() returns the interfaces the loop will visit.
DevicesInterfaces ==
    /\ pc = "interfaces"
    /\ pc' = "loop"
    /\ \E n \in 0..MaxIfis : ifis' \in [1..n -> Interfaces]
    /\ UNCHANGED <<hostLE, input, first, ret, saIn, cfgName, cfg, replies, ifiIdx, ds>>

\* The loop body on the next interface, the transport answering reply.
DevicesNext ==
    /\ pc = "loop"
    /\ ifiIdx < Len(ifis)
    /\ LET ifi == ifis[ifiIdx + 1] IN
       \E reply \in (IF ifi.Index = 0 /\ ifi.Name = <<>> THEN {NoReply} ELSE GetReplies) :
          LET r == devicesIter(ds, ifi, reply, hostLE) IN
          /\ replies' = Append(replies, reply)
          /\ ifiIdx' = ifiIdx + 1
          /\ IF r.stop
             THEN /\ pc' = "done"
                  /\ ret' = [err |-> r.err, val |-> Nil]
                  /\ ds' = ds
             ELSE /\ ds' = r.ds
                  /\ UNCHANGED <<pc, ret>>
    /\ UNCHANGED <<hostLE, input, first, saIn, cfgName, cfg, ifis>>

\* Every interface was visited: return ds, nil.
DevicesReturn ==
    /\ pc = "loop"
    /\ ifiIdx = Len(ifis)
    /\ pc' = "done"
    /\ ret' = [err |-> NoErr, val |-> ds]
    /\ UNCHANGED <<hostLE, input, first, saIn, cfgName, cfg, ifis, replies, ifiIdx, ds>>

NextDevices == DevicesInterfacesFail \/ DevicesInterfaces \/ DevicesNext \/ DevicesReturn

SpecDevices == InitDevices /\ [][NextDevices]_vars

\* How the query of the i-th interface ends: "skip" on a not-exist error,
\* "abort" on any other error, "ok" otherwise.
QueryEnd(i) ==
    IF ifis[i].Index = 0 /\ ifis[i].Name = <<>> THEN "skip"
    ELSE IF replies[i].err \in {ENODEV, ENOTSUP, ENOENT} THEN "skip"
    ELSE IF replies[i].err # NoErr THEN "abort"
    ELSE IF \E m \in 1..Len(replies[i].msgs) : replies[i].msgs[m].bad # "none" THEN "abort"
    ELSE "ok"

QueryErr(i) ==
    IF replies[i].err # NoErr THEN replies[i].err
    ELSE BadErr((CHOOSE mp \in {replies[i].msgs[m] : m \in 1..Len(replies[i].msgs)} :
                    mp.bad # "none").bad)

\* The Devices of the interfaces 1..n whose queries ended "ok", in order.
RECURSIVE OkDevices(_)
OkDevices(n) ==
    IF n = 0 THEN <<>>
    ELSE IF QueryEnd(n) = "ok"
         THEN Append(OkDevices(n - 1),
                     parseDevice(ReplyMsgs(replies[n], hostLE), hostLE).val[1])
         ELSE OkDevices(n - 1)

\* C10: Devices visits the interfaces in order; an interface whose query
\* ends in a not-exist error is skipped; the first query that ends in any
\* other error ends the call with that error and no list; otherwise the
\* call returns the Devices of the interfaces whose queries succeeded, in
\* enumeration order.
C10_Devices ==
    (pc = "done" /\ ret.err # "interfaces") =>
        /\ \A i \in 1..(ifiIdx - 1) : QueryEnd(i) # "abort"
        /\ IF ifiIdx >= 1 /\ QueryEnd(ifiIdx) = "abort"
           THEN ret.err = QueryErr(ifiIdx) /\ ret.val = Nil
           ELSE /\ ifiIdx = Len(ifis)
                /\ ret.err = NoErr
                /\ ret.val = OkDevices(Len(ifis))

C10_Witness ==
    /\ pc = "done" /\ ret.err = NoErr
    /\ Len(ifis) = 3 /\ Len(ret.val) = 2
    /\ replies[1].err = NoErr /\ QueryEnd(1) = "ok"
    /\ replies[2].err = ENOTSUP
    /\ QueryEnd(3) = "ok" /\ ret.val[1] # ret.val[2]

=============================================================================
